---- MODULE Spec2Model ----
(***************************************************************************)
(* The Quantum Heist: a model of src/quantum-heist.js.                     *)
(*                                                                         *)
(* One behaviour is one run of the "both paths" flow of interactiveDemo    *)
(* (quantum-heist.js 1227-1233): a grid is chosen, solveQuantumHeist runs  *)
(* on it to its return, then solveWorstPath runs on the same grid.  One    *)
(* step is one iteration of the `while` loop of the running search.        *)
(*                                                                         *)
(* Rows and columns are 0-based as in the source; TLA+ sequences are       *)
(* 1-based, so element i of a JavaScript array a is a[i + 1] here.         *)
(***************************************************************************)
EXTENDS Integers, Sequences, FiniteSets, TLC

VARIABLES
  grid,           \* the argument of both searches: rows of one-character cells
  pc,             \* position of the run (see Init and the actions)
  pq,             \* MinHeap.heap of solveQuantumHeist
  queue,          \* queue of solveWorstPath
  visited,        \* Map hash -> time of the running search
  parent,         \* Map hash -> { prevHash, action } of the running search
  iterations,     \* iterations of the running search
  worstSolution,  \* worstSolution of solveWorstPath (Null until a goal state is dequeued)
  bestResult,     \* value returned by solveQuantumHeist (Null before it returns)
  worstResult,    \* value returned by solveWorstPath (Null before it returns)
  expanded        \* history: the states solveQuantumHeist extracted and did not discard as stale

vars == <<grid, pc, pq, queue, visited, parent, iterations, worstSolution,
          bestResult, worstResult, expanded>>

(***************************************************************************)
(* Bounds of the model.  The caps are the source's caps scaled down so     *)
(* that a run reaches them: the source sets maxIterations = 1000000 in     *)
(* solveQuantumHeist (line 278), maxIterations = 500000 and maxTime = 200  *)
(* in solveWorstPath (lines 575-576).  The searches use the caps only in   *)
(* the comparisons of lines 280, 578 and 582.                              *)
(***************************************************************************)
MaxCols == 4            \* widest generated one-row grid
maxIterations == 100    \* iteration cap of solveQuantumHeist
maxIterationsWorst == 60 \* iteration cap of solveWorstPath
maxTime == 6            \* time cap of solveWorstPath
Horizon == 10           \* longest elapsed time the reference searches of the claims look at
MaxHeap == 5            \* most elements a MinHeap exercised on its own holds
MaxKey == 2             \* largest time of an element inserted in such a heap

Null == <<>>

\* ---------------------------------------------------------------- arithmetic

(***************************************************************************)
(* The masks are JavaScript numbers combined with <<, & and |, which work  *)
(* on 32-bit two's-complement integers: the shift count of 1 << n is taken *)
(* modulo 32 and bit 31 is the sign bit, so 1 << 32 is 1 and 1 << 31 is    *)
(* -2147483648.                                                            *)
(***************************************************************************)
RECURSIVE Pow2(_)
Pow2(n) == IF n = 0 THEN 1 ELSE 2 * Pow2(n - 1)

\* the shift count the << operator uses
shiftCount(n) == n % 32

\* 1 << 31
signBit == -2147483647 - 1

\* 1 << n
shl1(n) == IF shiftCount(n) = 31 THEN signBit ELSE Pow2(shiftCount(n))

\* mask & (1 << i), as a truth value
BitSet(mask, i) ==
  IF shiftCount(i) = 31 THEN mask < 0
  ELSE ((IF mask >= 0 THEN mask ELSE mask - signBit) \div Pow2(shiftCount(i))) % 2 = 1

\* mask | (1 << i)
OrBit(mask, i) == IF BitSet(mask, i) THEN mask ELSE mask + shl1(i)

\* ---------------------------------------------------------------- parseMuseum

\* Array.prototype.findIndex with a position test: 0-based index or -1
RECURSIVE findIndexFrom(_, _, _)
findIndexFrom(list, pos, i) ==
  IF i > Len(list) THEN -1
  ELSE IF list[i] = pos THEN i - 1
  ELSE findIndexFrom(list, pos, i + 1)

findIndex(list, pos) == findIndexFrom(list, pos, 1)

\* the cells of a grid in the order of the nested r, c loops
scanOrder(g) ==
  LET rows == Len(g)
      cols == Len(g[1])
  IN [k \in 1..(rows * cols) |-> <<(k - 1) \div cols, (k - 1) % cols>>]

cellAt(g, pos) == g[pos[1] + 1][pos[2] + 1]

cellsOf(g, ch) == SelectSeq(scanOrder(g), LAMBDA p : cellAt(g, p) = ch)

\* museum.start / museum.exit: the last such cell scanned, null when there is none
lastOf(g, ch) ==
  LET l == cellsOf(g, ch) IN IF Len(l) = 0 THEN Null ELSE l[Len(l)]

\* the keys without the "i + 1 < portalPositions.length" test of line 131
portalKeysOfWithLast(g) == cellsOf(g, "P")

\* the keys of museum.portals in insertion order: p1, p2 of every complete pair
portalKeysOf(g) ==
  LET pp == cellsOf(g, "P") IN SubSeq(pp, 1, 2 * (Len(pp) \div 2))

parseMuseum(g) ==
  [grid |-> g,
   rows |-> Len(g),
   cols |-> Len(g[1]),
   start |-> lastOf(g, "S"),
   exit |-> lastOf(g, "E"),
   gems |-> cellsOf(g, "G"),
   keys |-> cellsOf(g, "K"),
   doors |-> cellsOf(g, "D"),
   portals |-> portalKeysOf(g),
   timeRifts |-> cellsOf(g, "T"),
   lasers |-> cellsOf(g, "L")]

\* museum.portals.has(`${r},${c}`)
portalsHas(museum, pos) == findIndex(museum.portals, pos) # -1

\* museum.portals.get(key): the other cell of the pair (keys 2i, 2i+1 are partners)
portalsGet(museum, pos) ==
  LET idx == findIndex(museum.portals, pos)
  IN IF idx % 2 = 0 THEN museum.portals[idx + 2] ELSE museum.portals[idx]

\* ---------------------------------------------------------------- State

State(r, c, time, gemMask, keyMask, portalMask, riftUsed) ==
  [r |-> r, c |-> c, time |-> time, gemMask |-> gemMask, keyMask |-> keyMask,
   portalMask |-> portalMask, riftUsed |-> riftUsed]

\* State.hash(): every field but time
hash(s) == <<s.r, s.c, s.gemMask, s.keyMask, s.portalMask, s.riftUsed>>

\* ---------------------------------------------------------------- MinHeap

swap(h, i, j) == [h EXCEPT ![i + 1] = h[j + 1], ![j + 1] = h[i + 1]]

RECURSIVE bubbleUp(_, _)
bubbleUp(h, idx) ==
  IF idx > 0
  THEN LET parentIdx == (idx - 1) \div 2
       IN IF h[parentIdx + 1].time <= h[idx + 1].time THEN h
          ELSE bubbleUp(swap(h, parentIdx, idx), parentIdx)
  ELSE h

RECURSIVE bubbleDown(_, _)
bubbleDown(h, idx) ==
  LET length == Len(h)
      left == 2 * idx + 1
      right == 2 * idx + 2
      s1 == IF left < length /\ h[left + 1].time < h[idx + 1].time THEN left ELSE idx
      smallest == IF right < length /\ h[right + 1].time < h[s1 + 1].time THEN right ELSE s1
  IN IF smallest = idx THEN h
     ELSE bubbleDown(swap(h, smallest, idx), smallest)

\* insert without the bubbleUp of line 28
insertWithoutBubbleUp(h, item) == Append(h, item)

insert(h, item) == bubbleUp(Append(h, item), Len(h))

\* extractMin without the bubbleDown(0) of line 37
extractMinNoBubbleDown(h) ==
  IF Len(h) = 0 THEN [min |-> Null, heap |-> h]
  ELSE IF Len(h) = 1 THEN [min |-> h[1], heap |-> <<>>]
  ELSE LET last == h[Len(h)]
           popped == SubSeq(h, 1, Len(h) - 1)
       IN [min |-> h[1], heap |-> [popped EXCEPT ![1] = last]]

\* extractMin: the returned element and the heap it leaves
extractMin(h) ==
  IF Len(h) = 0 THEN [min |-> Null, heap |-> h]
  ELSE IF Len(h) = 1 THEN [min |-> h[1], heap |-> <<>>]
  ELSE LET last == h[Len(h)]
           popped == SubSeq(h, 1, Len(h) - 1)
       IN [min |-> h[1], heap |-> bubbleDown([popped EXCEPT ![1] = last], 0)]

\* ---------------------------------------------------------------- Map

EmptyMap == [h \in {} |-> 0]

has(map, h) == h \in DOMAIN map

set(map, h, v) == [x \in (DOMAIN map) \cup {h} |-> IF x = h THEN v ELSE map[x]]

\* ---------------------------------------------------------------- helpers of the searches

directions == << <<-1, 0>>, <<1, 0>>, <<0, -1>>, <<0, 1>> >>
dirNames == <<"UP", "DOWN", "LEFT", "RIGHT">>

\* (1 << totalGems) - 1
allGemsCollected(museum) == shl1(Len(museum.gems)) - 1

initialState(museum) == State(museum.start[1], museum.start[2], 0, 0, 0, 0, FALSE)

getGemIndex(museum, r, c) == findIndex(museum.gems, <<r, c>>)
getKeyIndex(museum, r, c) == findIndex(museum.keys, <<r, c>>)
getDoorIndex(museum, r, c) == findIndex(museum.doors, <<r, c>>)

\* the hazard test on the time of departure instead of the time of arrival
isLaserActiveAtDeparture(museum, r, c, time) ==
  findIndex(museum.lasers, <<r, c>>) # -1 /\ (time - 1) % 3 = 0

isLaserActive(museum, r, c, time) ==
  LET isLaser == findIndex(museum.lasers, <<r, c>>) # -1
  IN isLaser /\ time % 3 = 0

hasTimeRift(museum, r, c) == findIndex(museum.timeRifts, <<r, c>>) # -1

\* position idx of the key in museum.portals, halved; -1 when the cell is no key
getPortalPairIndex(museum, r, c) ==
  LET idx == findIndex(museum.portals, <<r, c>>)
  IN IF idx = -1 THEN -1 ELSE idx \div 2

\* the move test without the wall test
isValidMoveThroughWalls(museum, r, c, keyMask) ==
  /\ r >= 0 /\ r < museum.rows /\ c >= 0 /\ c < museum.cols
  /\ LET doorIdx == getDoorIndex(museum, r, c)
     IN ~(doorIdx # -1 /\ ~BitSet(keyMask, doorIdx))

isValidMove(museum, r, c, keyMask) ==
  IF r < 0 \/ r >= museum.rows \/ c < 0 \/ c >= museum.cols THEN FALSE
  ELSE IF cellAt(museum.grid, <<r, c>>) = "#" THEN FALSE
  ELSE LET doorIdx == getDoorIndex(museum, r, c)
       IN ~(doorIdx # -1 /\ ~BitSet(keyMask, doorIdx))

\* the win condition of both searches
isGoal(museum, current) ==
  /\ current.r = museum.exit[1]
  /\ current.c = museum.exit[2]
  /\ current.gemMask = allGemsCollected(museum)

\* the action texts stored in the parent map, by their interpolated values
moveAction(d, nr, nc) == [text |-> "Move", dir |-> dirNames[d + 1], r |-> nr, c |-> nc]
portalAction(dest) == [text |-> "PORTAL", dir |-> "", r |-> dest[1], c |-> dest[2]]
riftAction == [text |-> "TIME RIFT! Rewound 2 units", dir |-> "", r |-> -1, c |-> -1]

\* a move that takes two time units
moveStateCostsTwo(museum, current, d) ==
  LET nr == current.r + directions[d + 1][1]
      nc == current.c + directions[d + 1][2]
      gemIdx == getGemIndex(museum, nr, nc)
      keyIdx == getKeyIndex(museum, nr, nc)
  IN State(nr, nc, current.time + 2,
           IF gemIdx # -1 THEN OrBit(current.gemMask, gemIdx) ELSE current.gemMask,
           IF keyIdx # -1 THEN OrBit(current.keyMask, keyIdx) ELSE current.keyMask,
           current.portalMask, current.riftUsed)

\* a move that picks nothing up
moveStateWithoutPickup(museum, current, d) ==
  State(current.r + directions[d + 1][1], current.c + directions[d + 1][2],
        current.time + 1, current.gemMask, current.keyMask, current.portalMask,
        current.riftUsed)

\* the state a move in direction d builds (pickup of the gem and key of the arrival cell)
moveState(museum, current, d) ==
  LET nr == current.r + directions[d + 1][1]
      nc == current.c + directions[d + 1][2]
      newTime == current.time + 1
      gemIdx == getGemIndex(museum, nr, nc)
      keyIdx == getKeyIndex(museum, nr, nc)
      newGemMask == IF gemIdx # -1 THEN OrBit(current.gemMask, gemIdx) ELSE current.gemMask
      newKeyMask == IF keyIdx # -1 THEN OrBit(current.keyMask, keyIdx) ELSE current.keyMask
  IN State(nr, nc, newTime, newGemMask, newKeyMask, current.portalMask, current.riftUsed)

\* the guard of a move: isValidMove on the target, then the laser at the new time
moveAllowed(museum, current, d) ==
  LET nr == current.r + directions[d + 1][1]
      nc == current.c + directions[d + 1][2]
  IN /\ isValidMove(museum, nr, nc, current.keyMask)
     /\ ~isLaserActive(museum, nr, nc, current.time + 1)

\* the portal guard without the test of the pair's bit
portalAllowedIgnoringMask(museum, current) ==
  /\ portalsHas(museum, <<current.r, current.c>>)
  /\ getPortalPairIndex(museum, current.r, current.c) # -1

\* the guard of the portal option
portalAllowed(museum, current) ==
  /\ portalsHas(museum, <<current.r, current.c>>)
  /\ LET portalIdx == getPortalPairIndex(museum, current.r, current.c)
     IN portalIdx # -1 /\ ~BitSet(current.portalMask, portalIdx)

\* a portal that takes one time unit
portalStateCostsOne(museum, current) ==
  LET portalIdx == getPortalPairIndex(museum, current.r, current.c)
      dest == portalsGet(museum, <<current.r, current.c>>)
      gemIdx == getGemIndex(museum, dest[1], dest[2])
      keyIdx == getKeyIndex(museum, dest[1], dest[2])
  IN State(dest[1], dest[2], current.time + 1,
           IF gemIdx # -1 THEN OrBit(current.gemMask, gemIdx) ELSE current.gemMask,
           IF keyIdx # -1 THEN OrBit(current.keyMask, keyIdx) ELSE current.keyMask,
           OrBit(current.portalMask, portalIdx), current.riftUsed)

\* the state the portal option builds: 0 time, pickup at the destination
portalState(museum, current) ==
  LET portalIdx == getPortalPairIndex(museum, current.r, current.c)
      dest == portalsGet(museum, <<current.r, current.c>>)
      newPortalMask == OrBit(current.portalMask, portalIdx)
      gemIdx == getGemIndex(museum, dest[1], dest[2])
      keyIdx == getKeyIndex(museum, dest[1], dest[2])
  IN State(dest[1], dest[2], current.time,
           IF gemIdx # -1 THEN OrBit(current.gemMask, gemIdx) ELSE current.gemMask,
           IF keyIdx # -1 THEN OrBit(current.keyMask, keyIdx) ELSE current.keyMask,
           newPortalMask, current.riftUsed)

\* the time rift guard without the test of riftUsed
riftAllowedWhenUsed(museum, current) ==
  hasTimeRift(museum, current.r, current.c) /\ current.time >= 2

\* the time rift guard without the test of the elapsed time
riftAllowedAtAnyTime(museum, current) ==
  hasTimeRift(museum, current.r, current.c) /\ ~current.riftUsed

\* the guard and the state of the time rift option
riftAllowed(museum, current) ==
  hasTimeRift(museum, current.r, current.c) /\ ~current.riftUsed /\ current.time >= 2

\* a time rift that takes back one time unit
riftStateRewindsOne(current) ==
  State(current.r, current.c, current.time - 1,
        current.gemMask, current.keyMask, current.portalMask, TRUE)

riftState(current) ==
  State(current.r, current.c, current.time - 2,
        current.gemMask, current.keyMask, current.portalMask, TRUE)

\* ---------------------------------------------------------------- reconstructPath

(***************************************************************************)
(* The loop of reconstructPath keeps only currentHash between iterations   *)
(* (path is written, never read) and parent does not change while it runs, *)
(* so once it has made more iterations than parent has keys it has been at *)
(* one hash twice and repeats for ever: returns = FALSE stands for that.   *)
(***************************************************************************)
RECURSIVE walkBack(_, _, _, _, _)
walkBack(par, currentHash, startHash, path, steps) ==
  IF currentHash # startHash /\ has(par, currentHash)
  THEN IF steps > Cardinality(DOMAIN par)
       THEN [returns |-> FALSE, path |-> path]
       ELSE walkBack(par, par[currentHash].prevHash, startHash,
                     <<par[currentHash].action>> \o path, steps + 1)
  ELSE [returns |-> TRUE, path |-> path]

reconstructPath(par, endHash, startHash) == walkBack(par, endHash, startHash, <<>>, 0)

\* ---------------------------------------------------------------- solveQuantumHeist

\* the three tables an iteration updates
Tables(v, q, p) == [visited |-> v, frontier |-> q, parent |-> p]

\* the update that keeps the candidate when its time is higher than the recorded one
bestUpdateKeepsHigher(st, newState, currentHash, action) ==
  LET newHash == hash(newState)
  IN IF ~has(st.visited, newHash) \/ st.visited[newHash] < newState.time
     THEN Tables(set(st.visited, newHash, newState.time),
                 insert(st.frontier, newState),
                 set(st.parent, newHash, [prevHash |-> currentHash, action |-> action]))
     ELSE st

\* the update that also keeps a candidate whose time equals the recorded one
bestUpdateOrEqual(st, newState, currentHash, action) ==
  LET newHash == hash(newState)
  IN IF ~has(st.visited, newHash) \/ st.visited[newHash] >= newState.time
     THEN Tables(set(st.visited, newHash, newState.time),
                 insert(st.frontier, newState),
                 set(st.parent, newHash, [prevHash |-> currentHash, action |-> action]))
     ELSE st

\* the update that inserts in the heap only a candidate whose hash is new
bestUpdateInsertsOnlyNew(st, newState, currentHash, action) ==
  LET newHash == hash(newState)
  IN IF ~has(st.visited, newHash) \/ st.visited[newHash] > newState.time
     THEN Tables(set(st.visited, newHash, newState.time),
                 IF has(st.visited, newHash) THEN st.frontier
                 ELSE insert(st.frontier, newState),
                 set(st.parent, newHash, [prevHash |-> currentHash, action |-> action]))
     ELSE st

\* lines 342-347 (repeated at 374-379 and 390-395): keep the candidate when its
\* hash is new or its time is lower than the recorded one
bestUpdate(st, newState, currentHash, action) ==
  LET newHash == hash(newState)
  IN IF ~has(st.visited, newHash) \/ st.visited[newHash] > newState.time
     THEN Tables(set(st.visited, newHash, newState.time),
                 insert(st.frontier, newState),
                 set(st.parent, newHash, [prevHash |-> currentHash, action |-> action]))
     ELSE st

\* Option 1: the loop over the four directions, from direction d on
RECURSIVE bestMoves(_, _, _, _)
bestMoves(museum, current, d, st) ==
  IF d >= 4 THEN st
  ELSE bestMoves(museum, current, d + 1,
         IF moveAllowed(museum, current, d)
         THEN LET newState == moveState(museum, current, d)
              IN bestUpdate(st, newState, hash(current),
                            moveAction(d, newState.r, newState.c))
         ELSE st)

\* Option 2: use portal
bestPortal(museum, current, st) ==
  IF portalAllowed(museum, current)
  THEN bestUpdate(st, portalState(museum, current), hash(current),
                  portalAction(portalsGet(museum, <<current.r, current.c>>)))
  ELSE st

\* Option 3: use time rift
bestRift(museum, current, st) ==
  IF riftAllowed(museum, current)
  THEN bestUpdate(st, riftState(current), hash(current), riftAction)
  ELSE st

\* "Generate next states" of one iteration
bestExpand(museum, current, st) ==
  bestRift(museum, current, bestPortal(museum, current, bestMoves(museum, current, 0, st)))

\* the stale check with <= in place of <
isStaleOrEqual(vis, current) == has(vis, hash(current)) /\ vis[hash(current)] <= current.time

\* "Skip if we've found a better path to this state"
isStale(vis, current) == has(vis, hash(current)) /\ vis[hash(current)] < current.time

\* the test of the start cell alone
missingStartOnly(museum) == museum.start = Null

missingStartOrExit(museum) == museum.start = Null \/ museum.exit = Null

BestMissing ==
  /\ pc = "solveQuantumHeist"
  /\ missingStartOrExit(parseMuseum(grid))
  /\ bestResult' = [time |-> -1, path |-> <<>>, message |-> "Missing start or exit!"]
  /\ pc' = "solveWorstPath"
  /\ UNCHANGED <<grid, pq, queue, visited, parent, iterations, worstSolution,
                 worstResult, expanded>>

BestBegin ==
  /\ pc = "solveQuantumHeist"
  /\ ~missingStartOrExit(parseMuseum(grid))
  /\ LET init == initialState(parseMuseum(grid))
     IN /\ pq' = insert(<<>>, init)
        /\ visited' = set(EmptyMap, hash(init), 0)
  /\ parent' = EmptyMap
  /\ iterations' = 0
  /\ pc' = "bestLoop"
  /\ UNCHANGED <<grid, queue, worstSolution, bestResult, worstResult, expanded>>

\* the loop condition with <= in place of <
bestLoopGuardInclusive == Len(pq) > 0 /\ iterations <= maxIterations

bestLoopGuard == Len(pq) > 0 /\ iterations < maxIterations

BestStale ==
  /\ pc = "bestLoop"
  /\ bestLoopGuard
  /\ LET ex == extractMin(pq)
     IN /\ isStale(visited, ex.min)
        /\ pq' = ex.heap
  /\ iterations' = iterations + 1
  /\ UNCHANGED <<grid, pc, queue, visited, parent, worstSolution, bestResult,
                 worstResult, expanded>>

BestGoal ==
  /\ pc = "bestLoop"
  /\ bestLoopGuard
  /\ LET museum == parseMuseum(grid)
         ex == extractMin(pq)
         current == ex.min
         rp == reconstructPath(parent, hash(current), hash(initialState(museum)))
     IN /\ ~isStale(visited, current)
        /\ isGoal(museum, current)
        /\ pq' = ex.heap
        /\ expanded' = Append(expanded, current)
        /\ IF rp.returns
           THEN /\ bestResult' = [time |-> current.time, path |-> rp.path,
                                  iterations |-> iterations + 1, message |-> "Success!"]
                /\ pc' = "solveWorstPath"
           ELSE /\ bestResult' = bestResult
                /\ pc' = "bestHang"
  /\ iterations' = iterations + 1
  /\ UNCHANGED <<grid, queue, visited, parent, worstSolution, worstResult>>

\* the expansion without Option 3
BestExpandWithoutRift ==
  /\ pc = "bestLoop"
  /\ bestLoopGuard
  /\ LET museum == parseMuseum(grid)
         ex == extractMin(pq)
         current == ex.min
         st == bestPortal(museum, current,
                          bestMoves(museum, current, 0, Tables(visited, ex.heap, parent)))
     IN /\ ~isStale(visited, current)
        /\ ~isGoal(museum, current)
        /\ visited' = st.visited
        /\ pq' = st.frontier
        /\ parent' = st.parent
        /\ expanded' = Append(expanded, current)
  /\ iterations' = iterations + 1
  /\ UNCHANGED <<grid, pc, queue, worstSolution, bestResult, worstResult>>

BestExpand ==
  /\ pc = "bestLoop"
  /\ bestLoopGuard
  /\ LET museum == parseMuseum(grid)
         ex == extractMin(pq)
         current == ex.min
         st == bestExpand(museum, current, Tables(visited, ex.heap, parent))
     IN /\ ~isStale(visited, current)
        /\ ~isGoal(museum, current)
        /\ visited' = st.visited
        /\ pq' = st.frontier
        /\ parent' = st.parent
        /\ expanded' = Append(expanded, current)
  /\ iterations' = iterations + 1
  /\ UNCHANGED <<grid, pc, queue, worstSolution, bestResult, worstResult>>

BestFail ==
  /\ pc = "bestLoop"
  /\ ~bestLoopGuard
  /\ bestResult' = [time |-> -1, path |-> <<>>, iterations |-> iterations,
                    message |-> "Failed! No valid path exists."]
  /\ pc' = "solveWorstPath"
  /\ UNCHANGED <<grid, pq, queue, visited, parent, iterations, worstSolution,
                 worstResult, expanded>>

(***************************************************************************)
(* A whole call of solveQuantumHeist as a function of its argument: the    *)
(* loop of lines 280-397 from the tables st and the count its on, built    *)
(* from the same iteration bodies as the actions above.  The value is the  *)
(* returned record, or Null when reconstructPath does not return.          *)
(***************************************************************************)
RECURSIVE runBest(_, _, _)
runBest(museum, st, its) ==
  IF ~(Len(st.frontier) > 0 /\ its < maxIterations)
  THEN [time |-> -1, path |-> <<>>, iterations |-> its,
        message |-> "Failed! No valid path exists."]
  ELSE LET ex == extractMin(st.frontier)
           current == ex.min
           rest == Tables(st.visited, ex.heap, st.parent)
       IN IF isStale(st.visited, current)
          THEN runBest(museum, rest, its + 1)
          ELSE IF isGoal(museum, current)
          THEN LET rp == reconstructPath(st.parent, hash(current),
                                         hash(initialState(museum)))
               IN IF rp.returns
                  THEN [time |-> current.time, path |-> rp.path,
                        iterations |-> its + 1, message |-> "Success!"]
                  ELSE Null
          ELSE runBest(museum, bestExpand(museum, current, rest), its + 1)

solveQuantumHeist(g) ==
  LET museum == parseMuseum(g)
  IN IF missingStartOrExit(museum)
     THEN [time |-> -1, path |-> <<>>, message |-> "Missing start or exit!"]
     ELSE LET init == initialState(museum)
          IN runBest(museum,
                     Tables(set(EmptyMap, hash(init), 0), insert(<<>>, init), EmptyMap),
                     0)

\* ---------------------------------------------------------------- solveWorstPath

\* the move of solveWorstPath (lines 600-617)
worstMoveAllowed(museum, current, d) ==
  LET nr == current.r + directions[d + 1][1]
      nc == current.c + directions[d + 1][2]
  IN /\ isValidMove(museum, nr, nc, current.keyMask)
     /\ ~isLaserActive(museum, nr, nc, current.time + 1)

\* the move that keeps only the bit of the item just collected
worstMoveStateForgetsItems(museum, current, d) ==
  LET nr == current.r + directions[d + 1][1]
      nc == current.c + directions[d + 1][2]
      newTime == current.time + 1
      gemIdx == getGemIndex(museum, nr, nc)
      keyIdx == getKeyIndex(museum, nr, nc)
      newGemMask == IF gemIdx # -1 THEN shl1(gemIdx) ELSE current.gemMask
      newKeyMask == IF keyIdx # -1 THEN OrBit(current.keyMask, keyIdx) ELSE current.keyMask
  IN State(nr, nc, newTime, newGemMask, newKeyMask, current.portalMask, current.riftUsed)

worstMoveState(museum, current, d) ==
  LET nr == current.r + directions[d + 1][1]
      nc == current.c + directions[d + 1][2]
      newTime == current.time + 1
      gemIdx == getGemIndex(museum, nr, nc)
      keyIdx == getKeyIndex(museum, nr, nc)
      newGemMask == IF gemIdx # -1 THEN OrBit(current.gemMask, gemIdx) ELSE current.gemMask
      newKeyMask == IF keyIdx # -1 THEN OrBit(current.keyMask, keyIdx) ELSE current.keyMask
  IN State(nr, nc, newTime, newGemMask, newKeyMask, current.portalMask, current.riftUsed)

\* the portal guard of solveWorstPath without the test of the pair's bit
worstPortalAllowedIgnoringMask(museum, current) ==
  /\ portalsHas(museum, <<current.r, current.c>>)
  /\ getPortalPairIndex(museum, current.r, current.c) # -1

\* the portal of solveWorstPath (lines 629-641)
worstPortalAllowed(museum, current) ==
  /\ portalsHas(museum, <<current.r, current.c>>)
  /\ LET portalIdx == getPortalPairIndex(museum, current.r, current.c)
     IN portalIdx # -1 /\ ~BitSet(current.portalMask, portalIdx)

worstPortalState(museum, current) ==
  LET portalIdx == getPortalPairIndex(museum, current.r, current.c)
      dest == portalsGet(museum, <<current.r, current.c>>)
      newPortalMask == OrBit(current.portalMask, portalIdx)
      gemIdx == getGemIndex(museum, dest[1], dest[2])
      keyIdx == getKeyIndex(museum, dest[1], dest[2])
  IN State(dest[1], dest[2], current.time,
           IF gemIdx # -1 THEN OrBit(current.gemMask, gemIdx) ELSE current.gemMask,
           IF keyIdx # -1 THEN OrBit(current.keyMask, keyIdx) ELSE current.keyMask,
           newPortalMask, current.riftUsed)

\* the update with the comparison of solveQuantumHeist (>) in place of <
worstUpdateKeepsLower(st, newState, currentHash, action) ==
  LET newHash == hash(newState)
  IN IF ~has(st.visited, newHash) \/ st.visited[newHash] > newState.time
     THEN [visited |-> set(st.visited, newHash, newState.time),
           frontier |-> Append(st.frontier, newState),
           parent |-> set(st.parent, newHash, [prevHash |-> currentHash, action |-> action])]
     ELSE st

\* the update with >= in place of > : a candidate whose time equals the recorded
\* one is kept as well
worstUpdateOrEqual(st, newState, currentHash, action) ==
  LET newHash == hash(newState)
  IN IF ~has(st.visited, newHash) \/ st.visited[newHash] <= newState.time
     THEN Tables(set(st.visited, newHash, newState.time),
                 Append(st.frontier, newState),
                 set(st.parent, newHash, [prevHash |-> currentHash, action |-> action]))
     ELSE st

\* lines 621-626 (repeated at 643-648): keep the candidate when its hash is new
\* or its time is higher than the recorded one
worstUpdate(st, newState, currentHash, action) ==
  LET newHash == hash(newState)
  IN IF ~has(st.visited, newHash) \/ st.visited[newHash] < newState.time
     THEN Tables(set(st.visited, newHash, newState.time),
                 Append(st.frontier, newState),
                 set(st.parent, newHash, [prevHash |-> currentHash, action |-> action]))
     ELSE st

RECURSIVE worstMoves(_, _, _, _)
worstMoves(museum, current, d, st) ==
  IF d >= 4 THEN st
  ELSE worstMoves(museum, current, d + 1,
         IF worstMoveAllowed(museum, current, d)
         THEN LET newState == worstMoveState(museum, current, d)
              IN worstUpdate(st, newState, hash(current),
                             moveAction(d, newState.r, newState.c))
         ELSE st)

worstPortal(museum, current, st) ==
  IF worstPortalAllowed(museum, current)
  THEN worstUpdate(st, worstPortalState(museum, current), hash(current),
                   portalAction(portalsGet(museum, <<current.r, current.c>>)))
  ELSE st

worstExpand(museum, current, st) ==
  worstPortal(museum, current, worstMoves(museum, current, 0, st))

\* the comparison with >= in place of >
worstImprovesOrEqual(ws, current) == ws = Null \/ current.time >= ws.time

\* "if (!worstSolution || current.time > worstSolution.time)"
worstImproves(ws, current) == ws = Null \/ current.time > ws.time

WorstMissing ==
  /\ pc = "solveWorstPath"
  /\ missingStartOrExit(parseMuseum(grid))
  /\ worstResult' = [time |-> -1, path |-> <<>>, message |-> "Missing start or exit!"]
  /\ pc' = "done"
  /\ UNCHANGED <<grid, pq, queue, visited, parent, iterations, worstSolution,
                 bestResult, expanded>>

WorstBegin ==
  /\ pc = "solveWorstPath"
  /\ ~missingStartOrExit(parseMuseum(grid))
  /\ LET init == initialState(parseMuseum(grid))
     IN /\ queue' = <<init>>
        /\ visited' = set(EmptyMap, hash(init), 0)
  /\ parent' = EmptyMap
  /\ worstSolution' = Null
  /\ iterations' = 0
  /\ pc' = "worstLoop"
  /\ UNCHANGED <<grid, pq, bestResult, worstResult, expanded>>

worstLoopGuard == Len(queue) > 0 /\ iterations < maxIterationsWorst

\* "if (current.time > maxTime) continue"
WorstDiscard ==
  /\ pc = "worstLoop"
  /\ worstLoopGuard
  /\ Head(queue).time > maxTime
  /\ queue' = Tail(queue)
  /\ iterations' = iterations + 1
  /\ UNCHANGED <<grid, pc, pq, visited, parent, worstSolution, bestResult,
                 worstResult, expanded>>

WorstGoal ==
  /\ pc = "worstLoop"
  /\ worstLoopGuard
  /\ LET museum == parseMuseum(grid)
         current == Head(queue)
         rp == reconstructPath(parent, hash(current), hash(initialState(museum)))
     IN /\ current.time <= maxTime
        /\ isGoal(museum, current)
        /\ IF worstImproves(worstSolution, current)
           THEN IF rp.returns
                THEN /\ worstSolution' = [time |-> current.time, path |-> rp.path,
                                          iterations |-> iterations + 1]
                     /\ pc' = "worstLoop"
                ELSE /\ worstSolution' = worstSolution
                     /\ pc' = "worstHang"
           ELSE /\ worstSolution' = worstSolution
                /\ pc' = "worstLoop"
  /\ queue' = Tail(queue)
  /\ iterations' = iterations + 1
  /\ UNCHANGED <<grid, pq, visited, parent, bestResult, worstResult, expanded>>

\* the expansion without the time cap
WorstExpandPastCap ==
  /\ pc = "worstLoop"
  /\ worstLoopGuard
  /\ LET museum == parseMuseum(grid)
         current == Head(queue)
         st == worstExpand(museum, current, Tables(visited, Tail(queue), parent))
     IN /\ ~isGoal(museum, current)
        /\ visited' = st.visited
        /\ queue' = st.frontier
        /\ parent' = st.parent
  /\ iterations' = iterations + 1
  /\ UNCHANGED <<grid, pc, pq, worstSolution, bestResult, worstResult, expanded>>

WorstExpand ==
  /\ pc = "worstLoop"
  /\ worstLoopGuard
  /\ LET museum == parseMuseum(grid)
         current == Head(queue)
         st == worstExpand(museum, current, Tables(visited, Tail(queue), parent))
     IN /\ current.time <= maxTime
        /\ ~isGoal(museum, current)
        /\ visited' = st.visited
        /\ queue' = st.frontier
        /\ parent' = st.parent
  /\ iterations' = iterations + 1
  /\ UNCHANGED <<grid, pc, pq, worstSolution, bestResult, worstResult, expanded>>

\* the return that reports failure whatever the loop recorded
WorstReturnAlwaysFails ==
  /\ pc = "worstLoop"
  /\ ~worstLoopGuard
  /\ worstResult' = [time |-> -1, path |-> <<>>, iterations |-> iterations,
                     message |-> "No path found."]
  /\ pc' = "done"
  /\ UNCHANGED <<grid, pq, queue, visited, parent, iterations, worstSolution,
                 bestResult, expanded>>

WorstReturn ==
  /\ pc = "worstLoop"
  /\ ~worstLoopGuard
  /\ worstResult' = IF worstSolution # Null
                    THEN [time |-> worstSolution.time, path |-> worstSolution.path,
                          iterations |-> worstSolution.iterations, message |-> "Worst path"]
                    ELSE [time |-> -1, path |-> <<>>, iterations |-> iterations,
                          message |-> "No path found."]
  /\ pc' = "done"
  /\ UNCHANGED <<grid, pq, queue, visited, parent, iterations, worstSolution,
                 bestResult, expanded>>

\* ---------------------------------------------------------------- the grids

Alphabet == {"S", "E", "G", "K", "D", "P", "L", "T", "#", "."}

\* grids of the source: testCases 2, 3, 5, 6 and 7 (quantum-heist.js 718-782)
TestKeyDoor == << <<"S",".","K",".">>, <<".",".",".",".">>,
                  <<".","D",".","G">>, <<".",".",".","E">> >>
TestPortal == << <<"S",".",".","P",".",".",".",".">>,
                 <<".",".",".",".",".",".",".",".">>,
                 <<".",".",".",".",".",".",".",".">>,
                 <<".",".",".",".",".",".",".",".">>,
                 <<".",".",".",".",".",".",".",".">>,
                 <<".",".",".",".","P",".",".","G">>,
                 <<".",".",".",".",".",".",".",".">>,
                 <<".",".",".",".",".",".",".","E">> >>
TestMultipleGems == << <<"S",".",".","G",".">>, <<".",".",".",".",".">>,
                       <<"G",".",".",".","G">>, <<".",".",".",".",".">>,
                       <<".",".",".",".","E">> >>
TestTimeRift == << <<"S",".",".",".","T">>, <<".",".",".",".",".">>,
                   <<"G",".",".",".",".">>, <<".",".",".",".",".">>,
                   <<".",".",".",".","E">> >>
TestImpossible == << <<"S",".","#",".","G">>, <<".",".","#",".",".">>,
                     <<".",".","#",".",".">>, <<".",".","#",".","E">> >>

TestGrids == {TestKeyDoor, TestPortal, TestMultipleGems, TestTimeRift, TestImpossible}

\* further grids: two rewind cells with a hazard, a hazard that forces a detour,
\* a teleporter next to a rewind cell, hazards around a rewind cell, a hazard three
\* moves from the start, two rewind cells around an item
ExtraGrids ==
  { << <<"S",".",".",".","T","L","E">>, <<".","T","#","#","#","#","#">> >>,
    << <<"S",".",".",".">>, <<"#",".","#",".">>, <<"E","L",".",".">> >>,
    << <<"S","P","E","T","P">> >>,
    << <<"S","L","T","L","E">> >>,
    << <<"S",".",".","L","E">> >>,
    << <<"T","G","T","S","E">> >> }

\* grids without a start cell, without an exit cell, without both
Incomplete ==
  { << <<".", "E">> >>, << <<"S", ".">> >>, << <<".", "G", ".">> >>,
    << <<"S", "G">>, <<".", ".">> >> }

\* every one-row grid of 2..MaxCols cells with exactly one S and exactly one E
count(row, chars) == Cardinality({i \in DOMAIN row : row[i] \in chars})

Strips ==
  { <<row>> : row \in
      { w \in UNION { [1..n -> Alphabet] : n \in 2..MaxCols } :
          count(w, {"S"}) = 1 /\ count(w, {"E"}) = 1 } }

\* grids with more cells of one kind than a 32-bit mask has bits: 32 items beyond
\* the exit, and 33 doors of which the last stands between the only key and the exit
repeatCell(ch, n) == [i \in 1..n |-> ch]

ManyGems == << <<"S", "E">> \o repeatCell("G", 32) >>

ManyDoors == << repeatCell("D", 32) \o <<"#", "S", "K", "D", "E">> >>

\* 33 items: the start stands between item cell 31 and item cell 32
ManyGemsAround == << repeatCell("G", 32) \o <<"S", "G", "E">> >>

WideGrids == {ManyGems, ManyDoors, ManyGemsAround}

\* a corridor with more cells between start and exit than solveQuantumHeist has
\* iterations
LongCorridor == << <<"S">> \o repeatCell(".", maxIterations + 1) \o <<"E">> >>

\* grids of walls and empty cells only: a wall that forces a detour, a wall that
\* cuts the exit off, the corridor
PlainGrids ==
  { << <<"S","#","E">>, <<".","#",".">>, <<".",".",".">> >>,
    << <<"S","#","E">>, <<".","#",".">>, <<".","#",".">> >>,
    LongCorridor }

\* a rewind cell beside the direct route, a rewind cell between exit and item,
\* a route that needs both a rewind and a teleport
RewindGrids ==
  { << <<"S",".","T">>, <<".",".","E">> >>,
    << <<"S","E","T">>, <<".","T","G">> >>,
    << <<"S",".","T","P","#","#","P","E">> >> }

\* grids with three teleporter cells (one pair and a cell left over) and with two pairs
TeleporterGrids ==
  { << <<"S","P","P">>, <<"P",".","E">> >>,
    << <<"S","P","G","P">>, <<"P",".","E","P">> >> }

Worlds ==
  TestGrids \cup ExtraGrids \cup Incomplete \cup Strips \cup WideGrids
    \cup PlainGrids \cup RewindGrids \cup TeleporterGrids

\* ---------------------------------------------------------------- specification

Init ==
  /\ grid \in Worlds
  /\ pc = "solveQuantumHeist"
  /\ pq = <<>>
  /\ queue = <<>>
  /\ visited = EmptyMap
  /\ parent = EmptyMap
  /\ iterations = 0
  /\ worstSolution = Null
  /\ bestResult = Null
  /\ worstResult = Null
  /\ expanded = <<>>

Next ==
  \/ BestMissing
  \/ BestBegin
  \/ BestStale
  \/ BestGoal
  \/ BestExpand
  \/ BestFail
  \/ WorstMissing
  \/ WorstBegin
  \/ WorstDiscard
  \/ WorstGoal
  \/ WorstExpand
  \/ WorstReturn

Spec == Init /\ [][Next]_vars

\* ---------------------------------------------------------------- reference definitions of the claims

\* the states one valid transition away from s: move, teleport and (with rewind) rewind
ruleSuccessors(museum, s, rewind) ==
  {moveState(museum, s, d) : d \in {e \in 0..3 : moveAllowed(museum, s, e)}}
  \cup (IF portalAllowed(museum, s) THEN {portalState(museum, s)} ELSE {})
  \cup (IF rewind /\ riftAllowed(museum, s) THEN {riftState(s)} ELSE {})

\* every state (time included) that a valid sequence of transitions reaches without
\* its elapsed time ever exceeding limit; with stopAtGoal no sequence continues
\* from a goal state
RECURSIVE reach(_, _, _, _, _, _)
reach(museum, frontier, seen, limit, rewind, stopAtGoal) ==
  IF frontier = {} THEN seen
  ELSE LET open == {s \in frontier : ~(stopAtGoal /\ isGoal(museum, s))}
           next == {t \in UNION {ruleSuccessors(museum, s, rewind) : s \in open} :
                      t.time <= limit} \ seen
       IN reach(museum, next, seen \cup next, limit, rewind, stopAtGoal)

goalTimes(museum, limit, rewind, stopAtGoal) ==
  LET init == initialState(museum)
  IN {s.time : s \in {t \in reach(museum, {init}, {init}, limit, rewind, stopAtGoal) :
                        isGoal(museum, t)}}

minOf(S) == CHOOSE x \in S : \A y \in S : x <= y
maxOf(S) == CHOOSE x \in S : \A y \in S : x >= y

\* one step of a replay of a returned path: the state after the described
\* transition, Null when the transition is not valid in s
replayStep(museum, s, a) ==
  IF s = Null THEN Null
  ELSE IF a.text = "Move"
  THEN LET d == (CHOOSE i \in 1..4 : dirNames[i] = a.dir) - 1
       IN IF moveAllowed(museum, s, d) /\ moveState(museum, s, d).r = a.r
               /\ moveState(museum, s, d).c = a.c
          THEN moveState(museum, s, d) ELSE Null
  ELSE IF a.text = "PORTAL"
  THEN IF portalAllowed(museum, s) /\ portalState(museum, s).r = a.r
            /\ portalState(museum, s).c = a.c
       THEN portalState(museum, s) ELSE Null
  ELSE IF riftAllowed(museum, s) THEN riftState(s) ELSE Null

RECURSIVE replayFrom(_, _, _, _)
replayFrom(museum, s, path, i) ==
  IF i > Len(path) THEN s
  ELSE replayFrom(museum, replayStep(museum, s, path[i]), path, i + 1)

replay(museum, path) == replayFrom(museum, initialState(museum), path, 1)

moveCount(path) == Cardinality({i \in DOMAIN path : path[i].text = "Move"})

\* positions of the run
bestReturned == pc = "solveWorstPath"
worstReturned == pc = "done"
hasStartAndExit == ~missingStartOrExit(parseMuseum(grid))
bestSuccess == bestReturned /\ bestResult.time # -1
worstSuccess == worstReturned /\ worstResult.time # -1

\* ---------------------------------------------------------------- claims

\* C1: when solveQuantumHeist returns a success result, its time is the minimum
\* elapsed time over all valid sequences of move, teleport and rewind transitions
\* from the initial state to the exit with every item collected.
C1_SuccessIsOptimal ==
  bestSuccess =>
    LET times == goalTimes(parseMuseum(grid), Horizon, TRUE, FALSE)
    IN times # {} /\ bestResult.time = minOf(times)

\* C2: if some valid sequence of transitions reaches the goal and the iteration
\* cap is not reached, solveQuantumHeist returns a success result; it returns
\* time -1 after the frontier empties only when no such sequence exists.
C2_ReachableIsSolved ==
  (bestReturned /\ hasStartAndExit) =>
    LET times == goalTimes(parseMuseum(grid), Horizon, TRUE, FALSE)
    IN /\ (times # {} /\ iterations < maxIterations) => bestResult.time # -1
       /\ (bestResult.time = -1 /\ Len(pq) = 0) => times = {}

\* C3: on the grid of Test 2 (Key and Door) solveQuantumHeist returns time 8.
C3_KeyDoorIs8 ==
  (bestReturned /\ grid = TestKeyDoor) => bestResult.time = 8

\* C4: on the grid of Test 3 (Portal Shortcut) solveQuantumHeist returns time 6.
C4_PortalShortcutIs6 ==
  (bestReturned /\ grid = TestPortal) => bestResult.time = 6

\* C5: solveWorstPath terminates: every path reconstruction performed when a goal
\* state is dequeued finishes, so the call is never stuck in reconstructPath.
C5_WorstReconstructionFinishes == pc # "worstHang"

\* C6: the path of a successful solveQuantumHeist, replayed from the initial state
\* under the move, teleport and rewind rules, is valid at every step, ends on the
\* exit with all items collected and costs exactly the returned time.
C6_BestPathReplays ==
  bestSuccess =>
    LET museum == parseMuseum(grid)
        end == replay(museum, bestResult.path)
    IN end # Null /\ isGoal(museum, end) /\ end.time = bestResult.time

\* C7: the path of a successful solveWorstPath, replayed from the initial state, is
\* valid at every step, ends on the exit with all items collected, and its number
\* of move steps equals the returned time.
C7_WorstPathReplays ==
  worstSuccess =>
    LET museum == parseMuseum(grid)
        end == replay(museum, worstResult.path)
    IN /\ end # Null /\ isGoal(museum, end)
       /\ moveCount(worstResult.path) = worstResult.time

\* C8: in every world in which the goal is reachable, solveWorstPath returns a
\* non-sentinel time that is at least the time solveQuantumHeist returned.
C8_WorstAtLeastBest ==
  (pc \in {"done", "worstHang"} /\ hasStartAndExit
     /\ goalTimes(parseMuseum(grid), Horizon, TRUE, FALSE) # {}) =>
    /\ worstReturned
    /\ worstResult.time # -1
    /\ worstResult.time >= bestResult.time

Range(seq) == {seq[i] : i \in DOMAIN seq}

\* every search state the run holds: both frontiers and the extraction history
stored == Range(pq) \cup Range(queue) \cup Range(expanded)

inGrid(r, c) == r \in 0..(Len(grid) - 1) /\ c \in 0..(Len(grid[1]) - 1)

cellOf(r, c) == grid[r + 1][c + 1]

\* the 0-based index of cell (r, c) among the cells showing ch, in row-major order
rankOf(ch, r, c) ==
  Cardinality({p \in (0..(Len(grid) - 1)) \X (0..(Len(grid[1]) - 1)) :
                 /\ cellOf(p[1], p[2]) = ch
                 /\ (p[1] < r \/ (p[1] = r /\ p[2] < c))})

countOf(ch) ==
  Cardinality({p \in (0..(Len(grid) - 1)) \X (0..(Len(grid[1]) - 1)) :
                 cellOf(p[1], p[2]) = ch})

\* bit i of a mask, for the bits a mask has
hasBit(mask, i) == i < 32 /\ BitSet(mask, i)

\* the state the running search takes out next and goes on to test and expand
bestCurrent == extractMin(pq).min
worstCurrent == Head(queue)

bestTesting ==
  pc = "bestLoop" /\ bestLoopGuard /\ ~isStale(visited, bestCurrent)
worstTesting ==
  pc = "worstLoop" /\ worstLoopGuard /\ worstCurrent.time <= maxTime

bestExpanding == bestTesting /\ ~isGoal(parseMuseum(grid), bestCurrent)
worstExpanding == worstTesting /\ ~isGoal(parseMuseum(grid), worstCurrent)

\* the transitions one expansion of current builds, before the best-time table
\* decides which of them to keep
bestCandidates(museum, current) ==
  {[kind |-> "move", from |-> current, to |-> moveState(museum, current, d)] :
     d \in {e \in 0..3 : moveAllowed(museum, current, e)}}
  \cup (IF portalAllowed(museum, current)
        THEN {[kind |-> "portal", from |-> current, to |-> portalState(museum, current)]}
        ELSE {})
  \cup (IF riftAllowed(museum, current)
        THEN {[kind |-> "rift", from |-> current, to |-> riftState(current)]}
        ELSE {})

worstCandidates(museum, current) ==
  {[kind |-> "move", from |-> current, to |-> worstMoveState(museum, current, d)] :
     d \in {e \in 0..3 : worstMoveAllowed(museum, current, e)}}
  \cup (IF worstPortalAllowed(museum, current)
        THEN {[kind |-> "portal", from |-> current,
               to |-> worstPortalState(museum, current)]}
        ELSE {})

\* the transitions the step about to be taken builds
generatedNow ==
  IF bestExpanding THEN bestCandidates(parseMuseum(grid), bestCurrent)
  ELSE IF worstExpanding THEN worstCandidates(parseMuseum(grid), worstCurrent)
  ELSE {}

\* the states the step about to be taken tests for the goal
testedNow ==
  (IF bestTesting THEN {bestCurrent} ELSE {})
  \cup (IF worstTesting THEN {worstCurrent} ELSE {})

\* the states the step about to be taken expands
expandingNow ==
  (IF bestExpanding THEN {bestCurrent} ELSE {})
  \cup (IF worstExpanding THEN {worstCurrent} ELSE {})

onExit(s) == cellOf(s.r, s.c) = "E"

allItems(s) == \A i \in 0..(countOf("G") - 1) : hasBit(s.gemMask, i)

\* C11: a state is taken for a solution exactly when it is on the exit cell and its
\* item mask has the bit of every item of the grid set; the time of a success
\* result of solveQuantumHeist is the time of such a state, and a state on the
\* exit with an incomplete mask is expanded like any other.
C11_GoalIsExitWithAllItems ==
  /\ \A s \in testedNow : isGoal(parseMuseum(grid), s) <=> (onExit(s) /\ allItems(s))
  /\ bestSuccess =>
       LET last == expanded[Len(expanded)]
       IN last.time = bestResult.time /\ onExit(last) /\ allItems(last)

\* C12: a move onto a hazard cell is generated exactly when its arrival time
\* (current time + 1) is not a multiple of 3, in both searches, and no state the
\* searches hold is on a hazard cell at a time that is a multiple of 3.
C12_HazardAtArrival ==
  /\ \A s \in stored : cellOf(s.r, s.c) = "L" => s.time % 3 # 0
  /\ \A cur \in expandingNow : \A d \in 1..4 :
       LET nr == cur.r + directions[d][1]
           nc == cur.c + directions[d][2]
       IN (inGrid(nr, nc) /\ cellOf(nr, nc) = "L") =>
            ((\E t \in generatedNow : t.kind = "move" /\ t.to.r = nr /\ t.to.c = nc)
               <=> (cur.time + 1) % 3 # 0)

\* a state on a hazard cell has been expanded, and the state being expanded is
\* next to a hazard cell at a time one below a multiple of 3
C12_Witness ==
  /\ \E s \in Range(expanded) : cellOf(s.r, s.c) = "L"
  /\ bestExpanding
  /\ (bestCurrent.time + 1) % 3 = 0
  /\ \E d \in 1..4 :
       LET nr == bestCurrent.r + directions[d][1]
           nc == bestCurrent.c + directions[d][2]
       IN inGrid(nr, nc) /\ cellOf(nr, nc) = "L"

\* C13: a move onto door cell i (doors and keys numbered in row-major order) is
\* generated exactly when bit i of the mover's key mask is set, in both searches;
\* no state the searches hold is on door i without key i, and a door whose number
\* has no key in the grid is never entered.
C13_DoorNeedsItsKey ==
  /\ \A s \in stored :
       cellOf(s.r, s.c) = "D" =>
         LET i == rankOf("D", s.r, s.c)
         IN i < countOf("K") /\ hasBit(s.keyMask, i)
  /\ \A cur \in expandingNow : \A d \in 1..4 :
       LET nr == cur.r + directions[d][1]
           nc == cur.c + directions[d][2]
       IN (inGrid(nr, nc) /\ cellOf(nr, nc) = "D") =>
            ((\E t \in generatedNow : t.kind = "move" /\ t.to.r = nr /\ t.to.c = nc)
               <=> hasBit(cur.keyMask, rankOf("D", nr, nc)))

\* the pair a teleporter cell belongs to, and the rank of the other cell of the pair
pairOf(r, c) == rankOf("P", r, c) \div 2
partnerRank(k) == IF k % 2 = 0 THEN k + 1 ELSE k - 1

\* C14: a teleport of pair i is generated only from a state on a cell of the pair
\* whose teleporter-mask bit i is unset, it sets bit i, and no transition of either
\* search clears a teleporter-mask bit or changes the mask otherwise; so along any
\* sequence of transitions each pair is used at most once.
C14_TeleporterPairOnce ==
  \A t \in generatedNow :
    /\ \A i \in 0..((countOf("P") \div 2) - 1) :
         hasBit(t.from.portalMask, i) => hasBit(t.to.portalMask, i)
    /\ t.kind # "portal" => t.to.portalMask = t.from.portalMask
    /\ t.kind = "portal" =>
         LET i == pairOf(t.from.r, t.from.c)
         IN /\ cellOf(t.from.r, t.from.c) = "P"
            /\ ~hasBit(t.from.portalMask, i)
            /\ hasBit(t.to.portalMask, i)
            /\ \A j \in 0..((countOf("P") \div 2) - 1) :
                 j # i => (hasBit(t.to.portalMask, j) <=> hasBit(t.from.portalMask, j))

\* a state that stands on a cell of a pair it has used is expanded by
\* solveQuantumHeist, and no teleport is built from it
C14_Witness ==
  /\ bestExpanding
  /\ cellOf(bestCurrent.r, bestCurrent.c) = "P"
  /\ rankOf("P", bestCurrent.r, bestCurrent.c) < 2 * (countOf("P") \div 2)
  /\ hasBit(bestCurrent.portalMask, pairOf(bestCurrent.r, bestCurrent.c))
  /\ \A t \in generatedNow : t.kind # "portal"

\* C15: a teleport produces a state on the other cell of the pair whose elapsed
\* time equals that of the departing state, in both searches.
C15_TeleportCostsZero ==
  \A t \in generatedNow :
    t.kind = "portal" =>
      /\ t.to.time = t.from.time
      /\ cellOf(t.to.r, t.to.c) = "P"
      /\ rankOf("P", t.to.r, t.to.c) = partnerRank(rankOf("P", t.from.r, t.from.c))

\* solveWorstPath builds a teleport from a state that has spent time
C15_Witness ==
  /\ worstExpanding
  /\ worstCurrent.time > 0
  /\ \E t \in generatedNow : t.kind = "portal"

\* C16: solveQuantumHeist generates a rewind exactly when the expanded state is on
\* a rewind cell, has riftUsed false and time at least 2; the successor differs
\* from it only in the time, lower by 2, and in riftUsed, which is true.
C16_RewindRule ==
  bestExpanding =>
    LET cur == bestCurrent
        rewinds == {t \in generatedNow : t.kind = "rift"}
    IN /\ (rewinds # {}) <=>
            (cellOf(cur.r, cur.c) = "T" /\ ~cur.riftUsed /\ cur.time >= 2)
       /\ \A t \in rewinds :
            t.to = [cur EXCEPT !.time = cur.time - 2, !.riftUsed = TRUE]

\* a rewind is built, and its successor has been taken in by the frontier
C16_Witness ==
  /\ \E s \in Range(expanded) : s.riftUsed
  /\ bestExpanding
  /\ \E t \in generatedNow : t.kind = "rift"

\* C17: in solveQuantumHeist no transition turns riftUsed from true to false and
\* no rewind is generated from a state with riftUsed true, also in a world with
\* several rewind cells; so a sequence of transitions rewinds at most once.
C17_RewindOnce ==
  bestExpanding =>
    \A t \in generatedNow :
      /\ t.from.riftUsed => t.to.riftUsed
      /\ t.kind = "rift" => (~t.from.riftUsed /\ t.to.riftUsed)
      /\ t.kind # "rift" => t.to.riftUsed = t.from.riftUsed

\* in a world with several rewind cells a state that has rewound stands on a
\* rewind cell at a time of 2 or more, and is expanded without a rewind
C17_Witness ==
  /\ countOf("T") >= 2
  /\ bestExpanding
  /\ cellOf(bestCurrent.r, bestCurrent.c) = "T"
  /\ bestCurrent.riftUsed
  /\ bestCurrent.time >= 2
  /\ \A t \in generatedNow : t.kind # "rift"

\* the grid shows no start cell or no exit cell
lacksStartOrExit == countOf("S") = 0 \/ countOf("E") = 0

\* C18: on a grid without a start cell or without an exit cell both searches
\* return time -1 with an empty path, and neither creates a frontier, records a
\* state or performs an extraction.
C18_MissingCellsShortCircuit ==
  lacksStartOrExit =>
    /\ pc \in {"solveQuantumHeist", "solveWorstPath", "done"}
    /\ pq = <<>> /\ queue = <<>> /\ expanded = <<>>
    /\ visited = EmptyMap /\ parent = EmptyMap
    /\ iterations = 0
    /\ pc # "solveQuantumHeist" => (bestResult.time = -1 /\ bestResult.path = <<>>)
    /\ pc = "done" => (worstResult.time = -1 /\ worstResult.path = <<>>)

\* both searches have returned on such a grid
C18_Witness == lacksStartOrExit /\ pc = "done" /\ worstResult # Null /\ bestResult # Null

\* C19: solveQuantumHeist never performs more extractions than the iteration cap,
\* and when it returns after that many extractions of which the last was not an
\* accepted goal state, it returns the failure result of an unreachable goal
\* (time -1, empty path) with the cap as its count, whatever the frontier holds.
C19_CapReturnsFailure ==
  (bestReturned /\ ~lacksStartOrExit) =>
    LET accepted == expanded # <<>>
                      /\ isGoal(parseMuseum(grid), expanded[Len(expanded)])
    IN /\ bestResult.iterations <= maxIterations
       /\ (bestResult.iterations = maxIterations /\ ~accepted) =>
            bestResult = [time |-> -1, path |-> <<>>, iterations |-> maxIterations,
                          message |-> "Failed! No valid path exists."]

\* the cap ended a search whose frontier was not empty
C19_Witness ==
  /\ bestReturned
  /\ ~lacksStartOrExit
  /\ bestResult.time = -1
  /\ bestResult.iterations = maxIterations
  /\ Len(pq) > 0

\* C20: solveWorstPath expands no state whose time exceeds the time cap, so its
\* queue never holds a time more than one above the cap, and it records no such
\* state: the time of worstSolution and every success time it returns are at most
\* the cap.
C20_TimeCap ==
  /\ \A s \in Range(queue) : s.time <= maxTime + 1
  /\ worstSolution # Null => worstSolution.time <= maxTime
  /\ worstSuccess => worstResult.time <= maxTime

\* a state above the cap is about to be dequeued after a solution was recorded
C20_Witness ==
  /\ pc = "worstLoop"
  /\ worstLoopGuard
  /\ worstCurrent.time > maxTime
  /\ worstSolution # Null

\* ---------------------------------------------------------------- plain worlds

allCells == (0..(Len(grid) - 1)) \X (0..(Len(grid[1]) - 1))

\* the grid shows only start, exit, empty cells and walls
isPlain == \A p \in allCells : cellOf(p[1], p[2]) \in {"S", "E", ".", "#"}

\* the cells beside p that are not walls
openNeighbours(p) ==
  {q \in allCells :
     /\ cellOf(q[1], q[2]) # "#"
     /\ \/ (q[1] = p[1] /\ (q[2] = p[2] + 1 \/ q[2] = p[2] - 1))
        \/ (q[2] = p[2] /\ (q[1] = p[1] + 1 \/ q[1] = p[1] - 1))}

\* breadth-first distance from the cells of frontier (at distance d) to the exit
\* cell, -1 when the exit cannot be reached
RECURSIVE spread(_, _, _)
spread(frontier, seen, d) ==
  IF \E p \in frontier : cellOf(p[1], p[2]) = "E" THEN d
  ELSE LET next == UNION {openNeighbours(p) : p \in frontier} \ seen
       IN IF next = {} THEN -1 ELSE spread(next, seen \cup next, d + 1)

\* the length of a shortest 4-neighbour path from the start to the exit
plainDistance ==
  LET from == {p \in allCells : cellOf(p[1], p[2]) = "S"}
  IN spread(from, from, 0)

\* C21 as claimed: on every world of walls and empty cells solveQuantumHeist
\* returns the length of a shortest path from start to exit, or -1 when there is
\* none.
C21_PlainShortestPath ==
  (bestReturned /\ ~lacksStartOrExit /\ isPlain) => bestResult.time = plainDistance

\* C21 amended: it does so unless the iteration cap ends the search while the
\* heap still holds states; then it returns -1 whatever the distance is.
C21_PlainShortestPathBelowCap ==
  (bestReturned /\ ~lacksStartOrExit /\ isPlain) =>
    \/ bestResult.time = plainDistance
    \/ (bestResult.time = -1 /\ bestResult.iterations = maxIterations /\ Len(pq) > 0)

\* a world in which walls make the shortest path longer than the distance in
\* rows and columns has been solved
C21_Witness ==
  /\ bestSuccess
  /\ isPlain
  /\ countOf("#") > 0
  /\ LET museum == parseMuseum(grid)
         dr == museum.exit[1] - museum.start[1]
         dc == museum.exit[2] - museum.start[2]
     IN bestResult.time > (IF dr < 0 THEN -dr ELSE dr) + (IF dc < 0 THEN -dc ELSE dc)

\* ---------------------------------------------------------------- teleporters added

\* the grids that show a teleporter on two cells that are empty in g
withTeleporterPair(g) ==
  LET cells == (1..Len(g)) \X (1..Len(g[1]))
      dots == {p \in cells : g[p[1]][p[2]] = "."}
  IN {[r \in 1..Len(g) |->
         [c \in 1..Len(g[1]) |-> IF <<r, c>> \in {a, b} THEN "P" ELSE g[r][c]]] :
        <<a, b>> \in {ab \in dots \X dots : ab[1] # ab[2]}}

\* C22: when solveQuantumHeist solves a world with time t, it solves every world
\* obtained by replacing two empty cells with teleporter cells with a time of at
\* most t.
C22_TeleporterNeverSlower ==
  bestSuccess =>
    \A g \in withTeleporterPair(grid) :
      LET other == solveQuantumHeist(g)
      IN other # Null /\ other.time # -1 /\ other.time <= bestResult.time

C24_TimeRiftIs8 ==
  (bestReturned /\ grid = TestTimeRift) => bestResult.time = 8

\* the call on the grid of Test 6 has returned, with a path of 8 moves
C24_Witness ==
  /\ bestSuccess
  /\ grid = TestTimeRift
  /\ moveCount(bestResult.path) = 8

\* C25: on the grid of Test 7 (Impossible Case) solveQuantumHeist returns time -1
\* with an empty path.
C25_ImpossibleIsUnreachable ==
  (bestReturned /\ grid = TestImpossible) =>
    (bestResult.time = -1 /\ bestResult.path = <<>>)

\* the call on the grid of Test 7 has returned after emptying its heap
C25_Witness ==
  /\ bestReturned
  /\ grid = TestImpossible
  /\ Len(pq) = 0
  /\ iterations > 0

\* ---------------------------------------------------------------- the tables of solveQuantumHeist

startHash == hash(initialState(parseMuseum(grid)))

\* some identity has been expanded twice
expandedTwice ==
  \E i, j \in DOMAIN expanded : i < j /\ hash(expanded[i]) = hash(expanded[j])

\* how often state s stands in a frontier
copies(frontier, s) == Cardinality({i \in DOMAIN frontier : frontier[i] = s})

\* C26: an entry solveQuantumHeist extracts is dropped, with tables and history
\* untouched, exactly when the best-time table holds a strictly smaller time for
\* its identity; otherwise (the times are equal) it is goal-tested, and when it is
\* no goal state every successor it builds has a table entry afterwards.
C26_StaleExactlyWhenLower ==
  [][ (pc = "bestLoop" /\ bestLoopGuard) =>
        LET cur == bestCurrent
            h == hash(cur)
        IN /\ has(visited, h)
           /\ visited[h] <= cur.time
           /\ IF visited[h] < cur.time
              THEN /\ expanded' = expanded
                   /\ visited' = visited
                   /\ parent' = parent
                   /\ pq' = extractMin(pq).heap
                   /\ pc' = "bestLoop"
              ELSE /\ expanded' = Append(expanded, cur)
                   /\ isGoal(parseMuseum(grid), cur) <=> pc' # "bestLoop"
                   /\ ~isGoal(parseMuseum(grid), cur) =>
                        \A t \in bestCandidates(parseMuseum(grid), cur) :
                          /\ has(visited', hash(t.to))
                          /\ visited'[hash(t.to)] <= t.to.time ]_vars

\* an entry has been dropped as stale, and a state that a rewind put below the
\* time of a state extracted before it has been expanded
C26_Witness ==
  /\ pc = "bestLoop"
  /\ iterations > Len(expanded)
  /\ \E i, j \in DOMAIN expanded :
       i < j /\ expanded[j].riftUsed /\ expanded[j].time < expanded[i].time

\* C27: solveQuantumHeist expands each state identity at most once per call.
C27_IdentityExpandedOnce == ~expandedTwice

\* C28: in both searches the identity of the start state never has a
\* predecessor entry, and every other identity of the time table has one.
C28_OnlyStartLacksPredecessor ==
  ~lacksStartOrExit =>
    /\ ~has(parent, startHash)
    /\ \A h \in DOMAIN visited : h # startHash => has(parent, h)

\* following the predecessor links from h reaches start in at most fuel steps
RECURSIVE linksToStart(_, _, _, _)
linksToStart(par, h, start, fuel) ==
  IF h = start THEN TRUE
  ELSE IF fuel = 0 \/ ~has(par, h) THEN FALSE
  ELSE linksToStart(par, par[h].prevHash, start, fuel - 1)

\* C29: at every point of a run of solveQuantumHeist the predecessor links lead
\* from every identity of the predecessor table to the start identity in at most
\* as many steps as the table has entries, and no reconstructPath of the call
\* fails to return.
C29_BestLinksReachStart ==
  /\ pc # "bestHang"
  /\ pc \in {"bestLoop", "solveWorstPath"} =>
       \A h \in DOMAIN parent :
         linksToStart(parent, h, startHash, Cardinality(DOMAIN parent))

\* the table holds the link of a rewind, and an identity has been expanded a
\* second time after its recorded time was lowered
C29_Witness ==
  /\ pc = "bestLoop"
  /\ \E h \in DOMAIN parent : parent[h].action = riftAction
  /\ expandedTwice

\* C30: a successor solveQuantumHeist builds is written to the best-time table,
\* given a predecessor entry and inserted in the heap exactly when its identity
\* has no table entry or its time is strictly below the recorded one; otherwise
\* it changes nothing.  No step raises a recorded time, and a predecessor entry
\* changes only together with its recorded time.
C30_UpdateOnlyOnImprovement ==
  [][ pc = "bestLoop" =>
        /\ \A h \in DOMAIN visited :
             /\ has(visited', h)
             /\ visited'[h] <= visited[h]
             /\ visited'[h] = visited[h] =>
                  /\ has(parent, h) <=> has(parent', h)
                  /\ has(parent, h) => parent'[h] = parent[h]
        /\ \A t \in generatedNow :
             LET h == hash(t.to)
             IN IF ~has(visited, h) \/ t.to.time < visited[h]
                THEN /\ visited'[h] = t.to.time
                     /\ has(parent', h) /\ parent'[h].prevHash = hash(t.from)
                     /\ copies(pq', t.to) = copies(extractMin(pq).heap, t.to) + 1
                ELSE /\ visited'[h] = visited[h]
                     /\ copies(pq', t.to) = copies(extractMin(pq).heap, t.to) ]_vars

\* the expansion about to be made builds a successor whose time equals the
\* recorded one, and one whose identity is new
C30_Witness ==
  /\ bestExpanding
  /\ \E t \in generatedNow :
       has(visited, hash(t.to)) /\ visited[hash(t.to)] = t.to.time
  /\ \E t \in generatedNow : ~has(visited, hash(t.to))

\* C31: a successor solveWorstPath builds is written to the time table, given a
\* predecessor entry and appended to the queue exactly when its identity has no
\* table entry or its time is strictly above the recorded one; otherwise it
\* changes nothing.  No step lowers or removes a recorded time.
C31_WorstUpdateOnlyOnHigherTime ==
  [][ pc = "worstLoop" =>
        /\ \A h \in DOMAIN visited :
             /\ has(visited', h)
             /\ visited'[h] >= visited[h]
        /\ \A t \in generatedNow :
             LET h == hash(t.to)
             IN IF ~has(visited, h) \/ t.to.time > visited[h]
                THEN /\ visited'[h] = t.to.time
                     /\ has(parent', h) /\ parent'[h].prevHash = hash(t.from)
                     /\ copies(queue', t.to) = copies(Tail(queue), t.to) + 1
                ELSE /\ visited'[h] = visited[h]
                     /\ has(parent, h) <=> has(parent', h)
                     /\ has(parent, h) => parent'[h] = parent[h]
                     /\ copies(queue', t.to) = copies(Tail(queue), t.to) ]_vars

\* the expansion about to be made builds a successor whose time equals the
\* recorded one and one whose time is above the recorded one
C31_Witness ==
  /\ worstExpanding
  /\ \E t \in generatedNow :
       has(visited, hash(t.to)) /\ visited[hash(t.to)] = t.to.time
  /\ \E t \in generatedNow :
       has(visited, hash(t.to)) /\ visited[hash(t.to)] < t.to.time

\* solveWorstPath has returned because the iteration cap was reached with states
\* still in the queue
worstCapStopped ==
  worstReturned /\ Len(queue) > 0 /\ iterations >= maxIterationsWorst

\* C32: when the iteration cap stops solveWorstPath before the queue is
\* exhausted, the result is time -1 with an empty path.
C32_CapReportsUnreachable ==
  worstCapStopped => worstResult.time = -1 /\ worstResult.path = <<>>

\* C32, amended: when the iteration cap stops solveWorstPath before the queue is
\* exhausted, the result is time -1 with an empty path if no goal state was
\* dequeued before the cap, and otherwise the recorded worst solution.
C32_CapReportsRecordedOrUnreachable ==
  worstCapStopped =>
    IF worstSolution = Null
    THEN worstResult.time = -1 /\ worstResult.path = <<>>
    ELSE /\ worstResult.time = worstSolution.time
         /\ worstResult.path = worstSolution.path
         /\ worstResult.time >= 0

\* the cap stopped a call that had recorded a goal state
C32_Witness ==
  worstCapStopped /\ worstSolution # Null /\ worstResult.time > 0

\* ---------------------------------------------------------------- MinHeap on its own

\* the elements inserted: search states of every time up to MaxKey, two of each time
HeapItems ==
  {State(0, c, t, 0, 0, 0, FALSE) : c \in 0..1, t \in 0..MaxKey}

\* new MinHeap()
HeapInit ==
  /\ grid = << <<"S", "E">> >>
  /\ pc = "MinHeap"
  /\ pq = <<>>
  /\ queue = <<>>
  /\ visited = EmptyMap
  /\ parent = EmptyMap
  /\ iterations = 0
  /\ worstSolution = Null
  /\ bestResult = Null
  /\ worstResult = Null
  /\ expanded = <<>>

HeapInsert ==
  /\ pc = "MinHeap"
  /\ Len(pq) < MaxHeap
  /\ \E item \in HeapItems : pq' = insert(pq, item)
  /\ UNCHANGED <<grid, pc, queue, visited, parent, iterations, worstSolution,
                 bestResult, worstResult, expanded>>

\* extractMin, on the empty heap as well; the value returned is kept in bestResult
HeapExtractMin ==
  /\ pc = "MinHeap"
  /\ pq' = extractMin(pq).heap
  /\ bestResult' = extractMin(pq).min
  /\ UNCHANGED <<grid, pc, queue, visited, parent, iterations, worstSolution,
                 worstResult, expanded>>

HeapNext == HeapInsert \/ HeapExtractMin

HeapSpec == HeapInit /\ [][HeapNext]_vars

\* C33: whatever inserts and extractMins made the heap, extractMin returns an
\* element whose time is at most the time of every element that remains and
\* removes exactly that one element, and insert adds exactly the element given,
\* so the heap holds the multiset of the elements inserted and not yet
\* extracted; on an empty heap extractMin returns null and leaves it empty.
C33_HeapExtractsMinimum ==
  pc = "MinHeap" =>
    LET e == extractMin(pq)
    IN /\ pq = <<>> => e.min = Null /\ e.heap = <<>>
       /\ pq # <<>> =>
            /\ e.min \in Range(pq)
            /\ \A x \in Range(e.heap) : e.min.time <= x.time
            /\ Len(e.heap) = Len(pq) - 1
            /\ \A x \in HeapItems :
                 copies(e.heap, x) = copies(pq, x) - (IF x = e.min THEN 1 ELSE 0)
       /\ \A item \in HeapItems :
            LET h == insert(pq, item)
            IN /\ Len(h) = Len(pq) + 1
               /\ \A x \in HeapItems :
                    copies(h, x) = copies(pq, x) + (IF x = item THEN 1 ELSE 0)

\* a heap of three or more elements, two of them equal, whose extractMin has to
\* sift the moved last element down, reached after an extraction
C33_Witness ==
  /\ pc = "MinHeap"
  /\ bestResult # Null
  /\ Len(pq) >= 3
  /\ \E i, j \in DOMAIN pq : i # j /\ pq[i] = pq[j]
  /\ extractMin(pq).heap # extractMinNoBubbleDown(pq).heap

\* the teleporter cells of the grid, and the one at a given place of the scan
teleporterCells ==
  {p \in (0..(Len(grid) - 1)) \X (0..(Len(grid[1]) - 1)) : cellOf(p[1], p[2]) = "P"}
teleporterAt(k) == CHOOSE p \in teleporterCells : rankOf("P", p[1], p[2]) = k

\* the teleporter cell left without a partner: the last of an odd number
isLeftOver(p) ==
  /\ p \in teleporterCells
  /\ countOf("P") % 2 = 1
  /\ rankOf("P", p[1], p[2]) = countOf("P") - 1

\* C34: parseMuseum pairs the teleporter cells two by two in row-major scan
\* order (0 with 1, 2 with 3, ...), each cell of a pair leads to the other,
\* getPortalPairIndex gives both cells of a pair the place of the pair and
\* different pairs different indices, and the last of an odd number of
\* teleporter cells has no partner and no index, and no teleport is built
\* from it or to it.
C34_TeleportersPairedInScanOrder ==
  LET museum == parseMuseum(grid)
  IN /\ \A p \in teleporterCells :
          LET k == rankOf("P", p[1], p[2])
          IN IF isLeftOver(p)
             THEN /\ ~portalsHas(museum, p)
                  /\ getPortalPairIndex(museum, p[1], p[2]) = -1
             ELSE /\ portalsHas(museum, p)
                  /\ portalsGet(museum, p) = teleporterAt(partnerRank(k))
                  /\ portalsGet(museum, portalsGet(museum, p)) = p
                  /\ getPortalPairIndex(museum, p[1], p[2]) = k \div 2
     /\ \A p, q \in teleporterCells :
          (~isLeftOver(p) /\ ~isLeftOver(q)) =>
            ((getPortalPairIndex(museum, p[1], p[2])
                = getPortalPairIndex(museum, q[1], q[2]))
              <=> (q = p \/ q = portalsGet(museum, p)))
     /\ \A p \in (0..(Len(grid) - 1)) \X (0..(Len(grid[1]) - 1)) :
          p \notin teleporterCells =>
            ~portalsHas(museum, p) /\ getPortalPairIndex(museum, p[1], p[2]) = -1
     /\ \A t \in generatedNow :
          t.kind = "portal" =>
            /\ ~isLeftOver(<<t.from.r, t.from.c>>)
            /\ ~isLeftOver(<<t.to.r, t.to.c>>)
            /\ <<t.to.r, t.to.c>> = portalsGet(museum, <<t.from.r, t.from.c>>)

\* a state standing on the teleporter cell left over is about to be expanded,
\* in a grid that also has a complete pair
C34_Witness ==
  /\ countOf("P") >= 3
  /\ \E s \in expandingNow : isLeftOver(<<s.r, s.c>>)

\* the bits of item cells and key cells a mask has: 0..31 in the masks of the
\* source, which is enough for every index below 32
maskBits == 0..31

\* new is old with the bit added when the arrival cell is of the kind the mask
\* counts, and old itself otherwise: no other bit set, no bit cleared
addsOnlyBit(old, new, arrives, bit) ==
  IF arrives /\ ~hasBit(old, bit) THEN new = old + shl1(bit) ELSE new = old

C36_MaskBitsNeedOccupiedCell ==
  /\ hasStartAndExit =>
       LET init == initialState(parseMuseum(grid))
       IN init.gemMask = 0 /\ init.keyMask = 0 /\ init.portalMask = 0
  /\ \A t \in generatedNow : \A i \in maskBits :
       /\ (hasBit(t.to.gemMask, i) /\ ~hasBit(t.from.gemMask, i)) =>
            (cellOf(t.to.r, t.to.c) = "G" /\ rankOf("G", t.to.r, t.to.c) = i)
       /\ (hasBit(t.to.keyMask, i) /\ ~hasBit(t.from.keyMask, i)) =>
            (cellOf(t.to.r, t.to.c) = "K" /\ rankOf("K", t.to.r, t.to.c) = i)
       /\ (hasBit(t.to.portalMask, i) /\ ~hasBit(t.from.portalMask, i)) =>
            /\ cellOf(t.from.r, t.from.c) = "P"
            /\ cellOf(t.to.r, t.to.c) = "P"
            /\ pairOf(t.from.r, t.from.c) = i
            /\ pairOf(t.to.r, t.to.c) = i

\* the grid with every rewind cell replaced by an empty cell
withoutRewindCells(g) ==
  [r \in DOMAIN g |-> [c \in DOMAIN g[r] |-> IF g[r][c] = "T" THEN "." ELSE g[r][c]]]

\* C37: for every state with riftUsed = false that either search expands, the
\* moves and teleports solveWorstPath builds from it
\* are the moves and teleports solveQuantumHeist builds from it; solveWorstPath
\* builds no rewind, every state it creates has riftUsed = false, and it builds
\* the same successors when the rewind cells of the grid are empty cells.
C37_WorstMirrorsMoveAndTeleport ==
  LET museum == parseMuseum(grid)
  IN /\ \A s \in expandingNow :
          ~s.riftUsed =>
            worstCandidates(museum, s)
              = {t \in bestCandidates(museum, s) : t.kind # "rift"}
     /\ \A s \in Range(queue) : ~s.riftUsed
     /\ worstExpanding =>
          /\ \A t \in generatedNow : t.kind # "rift" /\ ~t.to.riftUsed
          /\ generatedNow
               = worstCandidates(parseMuseum(withoutRewindCells(grid)), worstCurrent)

\* solveWorstPath is about to expand a state that stands on a rewind cell at a
\* time of 2 or more, where solveQuantumHeist would build a rewind
C37_Witness ==
  /\ worstExpanding
  /\ cellOf(worstCurrent.r, worstCurrent.c) = "T"
  /\ riftAllowed(parseMuseum(grid), worstCurrent)
  /\ generatedNow # {}

\* C38: every state either search creates has a time of 0 or more, and the time
\* solveQuantumHeist records for the start identity is 0 from the first
\* iteration to the return.
C38_TimesNonNegative ==
  /\ \A s \in stored : s.time >= 0
  /\ \A t \in generatedNow : t.to.time >= 0
  /\ \A h \in DOMAIN visited : visited[h] >= 0
  /\ (pc = "bestLoop" \/ (bestReturned /\ hasStartAndExit)) =>
       has(visited, startHash) /\ visited[startHash] = 0

\* solveQuantumHeist, two or more extractions into its run, is about to build a
\* rewind that ends at time 0
C38_Witness ==
  /\ bestExpanding
  /\ \E t \in generatedNow : t.kind = "rift" /\ t.to.time = 0
  /\ Len(expanded) >= 2

\* solveWorstPath is about to take a goal state out of the queue
worstGoalDequeued == worstTesting /\ isGoal(parseMuseum(grid), worstCurrent)

\* C39: a goal state solveWorstPath takes out of the queue is not expanded
\* (table, predecessor links and the rest of the queue stay as they are); the
\* worst candidate changes only in such a step, only to a goal state whose
\* time is strictly above the candidate's (or when there is none yet), and the
\* loop goes on with the rest of the queue after recording it.
C39_GoalRecordedNotExpanded ==
  [][ pc = "worstLoop" =>
        /\ worstGoalDequeued =>
             /\ visited' = visited
             /\ parent' = parent
             /\ queue' = Tail(queue)
        /\ worstSolution' # worstSolution =>
             /\ worstGoalDequeued
             /\ worstSolution = Null \/ worstCurrent.time > worstSolution.time
             /\ worstSolution'.time = worstCurrent.time
             /\ pc' = "worstLoop"
             /\ queue' = Tail(queue)
             /\ iterations' = iterations + 1 ]_vars

\* a goal state with a time above the recorded worst candidate's is about to be
\* taken out and recorded, with states left in the queue behind it
C39_Witness ==
  /\ worstGoalDequeued
  /\ worstSolution # Null
  /\ worstCurrent.time > worstSolution.time
  /\ reconstructPath(parent, hash(worstCurrent), startHash).returns
  /\ Len(queue) > 1
  /\ iterations + 1 < maxIterationsWorst

\* the recorded time of identity h has been extracted: a state of that identity
\* and time was taken out of the heap and passed the stale test
extractedAtRecordedTime(h) ==
  \E e \in Range(expanded) : hash(e) = h /\ e.time = visited[h]

\* C40: at every point of solveQuantumHeist's loop every state in the heap has
\* a table entry for its identity and a time not below it, and every identity
\* whose recorded time has not yet been extracted with that time has a state
\* in the heap that carries exactly the recorded time.
C40_HeapCoversTable ==
  pc = "bestLoop" =>
    /\ \A s \in Range(pq) : has(visited, hash(s)) /\ s.time >= visited[hash(s)]
    /\ \A h \in DOMAIN visited :
         ~extractedAtRecordedTime(h) =>
           \E s \in Range(pq) : hash(s) = h /\ s.time = visited[h]

\* the heap holds a stale state next to a state that carries its identity's
\* recorded time, while other identities have been extracted at theirs
C40_Witness ==
  /\ pc = "bestLoop"
  /\ \E s \in Range(pq) : s.time > visited[hash(s)]
  /\ \E s \in Range(pq) : s.time = visited[hash(s)]
  /\ \E h \in DOMAIN visited : extractedAtRecordedTime(h)

====
